---- MODULE Spec2Model ----
(***************************************************************************)
(* Snowflake simulation (src/src/app/page.tsx, with the earlier snapshot   *)
(* src/src/app/sim.tsx): the per-particle integrator updateSnowflake, the  *)
(* factory createSnowflake, the lighting function calculateLighting and    *)
(* the frame loop of the SnowflakeSimulation component.                    *)
(*                                                                         *)
(* Numbers.  A JavaScript number is an IEEE double.  Here a number is an   *)
(* integer count of a unit (lengths in half metres, angles in 1/24 turn,   *)
(* dimensionless factors in 1/ONE), or one of NaN, PInf, NInf.  Every      *)
(* arithmetic result is rounded as a binary float with MantBits bits of    *)
(* mantissa (round to nearest, ties to even) and overflows to an infinity  *)
(* beyond MaxFinite, so that absorption (a + b = a for a small b), 0/0 and *)
(* x/0 behave as they do in the code.                                      *)
(***************************************************************************)
EXTENDS Integers, Sequences, FiniteSets, TLC

(***************************************************************************)
(* Bounds of the model.                                                    *)
(***************************************************************************)
MantBits == 4
MaxExp == 12

(***************************************************************************)
(* IEEE arithmetic on the integer grid.                                    *)
(***************************************************************************)
MaxFinite == 2^MaxExp
PInf == 2^20
NInf == -(2^20)
NaN == 2^21

IsNaN(a) == a = NaN
IsInf(a) == a = PInf \/ a = NInf
IsFin(a) == ~IsNaN(a) /\ ~IsInf(a)

Abs(a) == IF a < 0 THEN -a ELSE a
Sgn(a) == IF a < 0 THEN -1 ELSE IF a > 0 THEN 1 ELSE 0

\* the distance between neighbouring doubles at a natural number a below
\* 2 * MaxFinite: the power of two that leaves MantBits bits of mantissa
Spacing(a) ==
    2^(CHOOSE k \in 0..(MaxExp + 1) :
           /\ a < 2^(MantBits + k)
           /\ k = 0 \/ a >= 2^(MantBits + k - 1))

\* round a natural number to a multiple of s, ties to the even multiple
RoundTo(a, s) ==
    LET q == a \div s
        r == a % s
    IN  IF 2 * r < s THEN q * s
        ELSE IF 2 * r > s THEN (q + 1) * s
        ELSE IF q % 2 = 0 THEN q * s ELSE (q + 1) * s

\* a rounded magnitude m with the sign of a, or an infinity beyond MaxFinite
Signed(a, m) ==
    IF m > MaxFinite THEN (IF a < 0 THEN NInf ELSE PInf)
    ELSE IF a < 0 THEN -m ELSE m

\* the double nearest to the exact integer a
Fl(a) ==
    IF Abs(a) >= 2 * MaxFinite THEN (IF a < 0 THEN NInf ELSE PInf)
    ELSE Signed(a, RoundTo(Abs(a), Spacing(Abs(a))))

\* exact quotient a / b of integers (b # 0), rounded to the nearest integer,
\* ties to even: the grid's rounding of a division
Quot(a, b) ==
    LET sg == Sgn(a) * Sgn(b)
        n == Abs(a)
        d == Abs(b)
        q == n \div d
        r == n % d
        m == IF 2 * r < d THEN q
             ELSE IF 2 * r > d THEN q + 1
             ELSE IF q % 2 = 0 THEN q ELSE q + 1
    IN  sg * m

FNeg(a) == IF IsNaN(a) THEN NaN ELSE -a

FAdd(a, b) ==
    IF IsNaN(a) \/ IsNaN(b) THEN NaN
    ELSE IF IsInf(a) /\ IsInf(b) THEN (IF a = b THEN a ELSE NaN)
    ELSE IF IsInf(a) THEN a
    ELSE IF IsInf(b) THEN b
    ELSE Fl(a + b)

FSub(a, b) == FAdd(a, FNeg(b))

\* a * b / k for finite a, b in units whose product is k units of the result
FMulK(a, b, k) ==
    IF IsNaN(a) \/ IsNaN(b) THEN NaN
    ELSE IF IsInf(a) \/ IsInf(b)
         THEN (IF a = 0 \/ b = 0 THEN NaN
               ELSE IF Sgn(a) * Sgn(b) > 0 THEN PInf ELSE NInf)
    ELSE Fl(Quot(a * b, k))

FMul(a, b) == FMulK(a, b, 1)

\* k * a / b
FDivK(a, b, k) ==
    IF IsNaN(a) \/ IsNaN(b) THEN NaN
    ELSE IF IsInf(a) /\ IsInf(b) THEN NaN
    ELSE IF IsInf(a) THEN (IF Sgn(a) * (IF b < 0 THEN -1 ELSE 1) > 0 THEN PInf ELSE NInf)
    ELSE IF IsInf(b) THEN 0
    ELSE IF b = 0 THEN (IF a = 0 THEN NaN ELSE IF a > 0 THEN PInf ELSE NInf)
    ELSE Fl(Quot(k * a, b))

FDiv(a, b) == FDivK(a, b, 1)

\* the comparisons of the code: false whenever an operand is NaN
FLt(a, b) == ~IsNaN(a) /\ ~IsNaN(b) /\ a < b
FGt(a, b) == FLt(b, a)
FLe(a, b) == ~IsNaN(a) /\ ~IsNaN(b) /\ a <= b

\* JavaScript's a % b: the remainder has the sign of the dividend
FRem(a, b) ==
    IF IsNaN(a) \/ IsNaN(b) \/ IsInf(a) \/ b = 0 THEN NaN
    ELSE IF IsInf(b) THEN a
    ELSE IF a >= 0 THEN a % Abs(b) ELSE -((-a) % Abs(b))

\* Math.min, Math.max: NaN if either argument is NaN
FMin(a, b) == IF IsNaN(a) \/ IsNaN(b) THEN NaN ELSE IF a < b THEN a ELSE b
FMax(a, b) == IF IsNaN(a) \/ IsNaN(b) THEN NaN ELSE IF a > b THEN a ELSE b
FAbs(a) == IF IsNaN(a) THEN NaN ELSE Abs(a)

(***************************************************************************)
(* Units and program constants.  Lengths count half metres, so the domain  *)
(* of page.tsx is 20 wide.  Angles count 1/24 of a turn.  Velocities,      *)
(* accelerations, winds, gravity, trigonometric values and the lighting    *)
(* coefficients count 1/ONE of their unit.  Mass counts milligrams and     *)
(* diameter millimetres (the code's /1e6 and /1000 are the unit).          *)
(***************************************************************************)
ONE == 16
TWO_PI == 24
SIM_WIDTH == 20
SIM_HEIGHT == 20
SPAWN_HEIGHT == 18
GROUND_LEVEL == 2
LIGHT_SOURCE_X == SIM_WIDTH \div 2
LIGHT_SOURCE_Y == SIM_HEIGHT
VMAG_EPS == 1
\* a loop that makes one pass fewer
NUM_SUBSTEPS_fewer == 4 - 1
NUM_SUBSTEPS == 4
\* 1.225 and 1.28 in 1/ONE, 0.7 as 7/10, 0.5 in 1/ONE, 1/12 as a divisor
RHO_SEA == 20
CD == 20
HALF == 8
MIN_AREA_NUM == 7
MIN_AREA_DEN == 10
INERTIA_DEN == 12
TORQUE_K == 1

(***************************************************************************)
(* Math.cos, Math.sin, Math.acos, Math.hypot, Math.sqrt, Math.pow.         *)
(***************************************************************************)
CosTab == <<16, 15, 14, 11, 8, 4, 0, -4, -8, -11, -14, -15,
            -16, -15, -14, -11, -8, -4, 0, 4, 8, 11, 14, 15>>
SinTab == <<0, 4, 8, 11, 14, 15, 16, 15, 14, 11, 8, 4,
            0, -4, -8, -11, -14, -15, -16, -15, -14, -11, -8, -4>>
\* AcosTab[c + ONE + 1] is acos(c / ONE) in angle units, c in -ONE..ONE
AcosTab == <<12, 11, 10, 10, 9, 9, 9, 8, 8, 8, 7, 7, 7, 7, 6, 6, 6,
             6, 6, 5, 5, 5, 5, 4, 4, 4, 3, 3, 3, 2, 2, 1, 0>>

Cos(a) == IF IsFin(a) THEN CosTab[(a % TWO_PI) + 1] ELSE NaN
Sin(a) == IF IsFin(a) THEN SinTab[(a % TWO_PI) + 1] ELSE NaN
Acos(c) == IF IsFin(c) /\ c >= -ONE /\ c <= ONE THEN AcosTab[c + ONE + 1] ELSE NaN

\* the integer nearest to the square root of a natural number below 2^30,
\* found bit by bit from the highest
SqrtBit(n, r, b) == IF (r + b) * (r + b) <= n THEN r + b ELSE r
SqrtFloor(n) ==
    SqrtBit(n, SqrtBit(n, SqrtBit(n, SqrtBit(n, SqrtBit(n,
    SqrtBit(n, SqrtBit(n, SqrtBit(n, SqrtBit(n, SqrtBit(n,
    SqrtBit(n, SqrtBit(n, SqrtBit(n, SqrtBit(n, SqrtBit(n, 0,
        16384), 8192), 4096), 2048), 1024), 512), 256), 128), 64), 32),
        16), 8), 4), 2), 1)
Nearest(n, r) == IF n - r * r > r THEN r + 1 ELSE r
ISqrt(n) == Nearest(n, SqrtFloor(n))

\* Math.hypot of two values in the same unit
Hypot(a, b) ==
    IF IsInf(a) \/ IsInf(b) THEN PInf
    ELSE IF IsNaN(a) \/ IsNaN(b) THEN NaN
    ELSE Fl(ISqrt(a * a + b * b))

\* Math.pow(b, n) for b in 1/ONE and an integer n in 0..127, by squaring;
\* pow(x, 0) is 1 for every x
PowBit(n, i, p, acc) == IF (n \div i) % 2 = 1 THEN FMulK(acc, p, ONE) ELSE acc
Sq(p) == FMulK(p, p, ONE)
Pow(b, n) ==
    PowBit(n, 64, Sq(Sq(Sq(Sq(Sq(Sq(b)))))),
    PowBit(n, 32, Sq(Sq(Sq(Sq(Sq(b))))),
    PowBit(n, 16, Sq(Sq(Sq(Sq(b)))),
    PowBit(n, 8, Sq(Sq(Sq(b))),
    PowBit(n, 4, Sq(Sq(b)),
    PowBit(n, 2, Sq(b),
    PowBit(n, 1, b, ONE)))))))

(***************************************************************************)
(* normalizeAngle (page.tsx 65-72)                                         *)
(***************************************************************************)
normalizeAngle(angle) ==
    LET a == FRem(angle, TWO_PI)
    IN  IF FLt(a, 0) THEN FAdd(a, TWO_PI) ELSE a

(***************************************************************************)
(* updateSnowflake (page.tsx 92-161)                                       *)
(***************************************************************************)
\* lines 97-108: air density, wind at the particle's height, relative speed
\* an air density that ignores the pressure slider
Rho_seaLevel(env) == RHO_SEA
Rho(env) == FMulK(RHO_SEA, env.airPressure, ONE)

CurrentWindSpeed(state, env) ==
    LET heightRatio == FDivK(state.y, SIM_HEIGHT, ONE)
    IN  FAdd(env.windSpeedBottom,
             FMulK(FSub(env.windSpeedTop, env.windSpeedBottom), heightRatio, ONE))

RelativeVx(state, env) == FSub(state.vx, CurrentWindSpeed(state, env))

Vmag(state, env) == Hypot(RelativeVx(state, env), state.vy)

\* the test of lines 112, 132 and 133
IsMoving(vmag) == FGt(vmag, VMAG_EPS)

\* unit relative velocity (vx, vy) and angle of attack, lines 111-116
Flow(state, relativeVx, vmag, nx, ny) ==
    IF IsMoving(vmag)
    THEN LET vx == FDivK(relativeVx, vmag, ONE)
             vy == FDivK(state.vy, vmag, ONE)
             dot == FAdd(FMulK(vx, nx, ONE), FMulK(vy, ny, ONE))
         IN  [vx |-> vx, vy |-> vy, aoa |-> Acos(FMax(-ONE, FMin(ONE, dot)))]
    ELSE [vx |-> 0, vy |-> -ONE, aoa |-> state.theta]

\* projected area in 1/ONE of the diameter unit squared, lines 119-121
Area(diameter, aoa) ==
    LET maxArea == FMul(FMul(diameter, diameter), ONE)
        minArea == FMulK(maxArea, MIN_AREA_NUM, MIN_AREA_DEN)
    IN  FAdd(minArea, FMulK(FSub(maxArea, minArea), Sin(aoa), ONE))

\* 0.5 * rho * C * A * vmag * vmag * 1, lines 128-129
Force(rho, C, A, vmag) ==
    FMulK(FMulK(FMulK(FMulK(FMulK(HALF, rho, ONE), C, ONE), A, ONE), vmag, ONE),
          vmag, ONE)

\* lines 132-133
AccelX(vmag, Fdrag, Flift, vx, nx, mass) ==
    IF IsMoving(vmag)
    THEN FDiv(FAdd(FMulK(FNeg(Fdrag), vx, ONE), FMulK(Flift, nx, ONE)), mass)
    ELSE 0
AccelY_unguarded(vmag, Fdrag, Flift, vy, ny, mass, g) ==
    FSub(FDiv(FAdd(FMulK(FNeg(Fdrag), vy, ONE), FMulK(Flift, ny, ONE)), mass), g)
AccelY(vmag, Fdrag, Flift, vy, ny, mass, g) ==
    IF IsMoving(vmag)
    THEN FSub(FDiv(FAdd(FMulK(FNeg(Fdrag), vy, ONE), FMulK(Flift, ny, ONE)), mass), g)
    ELSE FNeg(g)

\* lines 136-138; I counts 1/INERTIA_DEN
AngularAccel(Flift, mass, diameter) ==
    LET torque == FMulK(FMul(-TORQUE_K, diameter), Flift, ONE)
        I == FMul(FMul(mass, diameter), diameter)
    IN  FDivK(torque, I, INERTIA_DEN)

\* line 125
LiftCoeff(aoa) == FMulK(HALF, Sin(FMul(2, aoa)), ONE)

\* lines 132-138 once the forces are known
AccelOf(state, env, nx, ny, vmag, fl, Fdrag, Flift) ==
    [ax |-> AccelX(vmag, Fdrag, Flift, fl.vx, nx, state.mass),
     ay |-> AccelY(vmag, Fdrag, Flift, fl.vy, ny, state.mass, env.g),
     alpha |-> AngularAccel(Flift, state.mass, state.diameter),
     vmag |-> vmag, Fdrag |-> Fdrag, Flift |-> Flift]

\* lines 119-129 once the flow direction and angle of attack are known
AccelFlow(state, env, nx, ny, vmag, fl) ==
    AccelOf(state, env, nx, ny, vmag, fl,
            Force(Rho(env), CD, Area(state.diameter, fl.aoa), vmag),
            Force(Rho(env), LiftCoeff(fl.aoa), Area(state.diameter, fl.aoa), vmag))

\* lines 110-116 once the relative velocity is known
AccelRel(state, env, nx, ny, relativeVx, vmag) ==
    AccelFlow(state, env, nx, ny, vmag, Flow(state, relativeVx, vmag, nx, ny))

\* the force model, lines 97-138: accelerations ax, ay (in 1/ONE) and alpha
Accel(state, env) ==
    AccelRel(state, env, Cos(state.theta), Sin(state.theta),
             RelativeVx(state, env), Vmag(state, env))

\* the horizontal wrap, lines 144-149
WrapX(new_x) ==
    LET w1 == IF FLt(new_x, 0) THEN FAdd(SIM_WIDTH, FRem(new_x, SIM_WIDTH)) ELSE new_x
    IN  IF FGt(new_x, SIM_WIDTH) THEN FRem(new_x, SIM_WIDTH) ELSE w1

\* a returned state that does not carry the mass over
StepResult_massDrift(state, wrapped_x, new_y, new_vx, new_vy, new_theta, new_omega) ==
    [x |-> wrapped_x, y |-> new_y,
     vx |-> new_vx, vy |-> new_vy,
     theta |-> new_theta, omega |-> new_omega,
     mass |-> FAdd(state.mass, 1), diameter |-> state.diameter]

\* the returned state, lines 153-160
StepResult(state, wrapped_x, new_y, new_vx, new_vy, new_theta, new_omega) ==
    [x |-> wrapped_x, y |-> new_y,
     vx |-> new_vx, vy |-> new_vy,
     theta |-> new_theta, omega |-> new_omega,
     mass |-> state.mass, diameter |-> state.diameter]

\* a forward Euler step: position and orientation advance with the pre-step
\* velocities
Advance_preStep(state, dt, new_omega, new_vx, new_vy) ==
    StepResult(state,
               WrapX(FAdd(state.x, FMulK(state.vx, dt, ONE))),
               FAdd(state.y, FMulK(state.vy, dt, ONE)),
               new_vx, new_vy,
               normalizeAngle(FAdd(state.theta, FMul(state.omega, dt))),
               new_omega)

\* lines 141, 144-151 once the new velocities are known
Advance(state, dt, new_omega, new_vx, new_vy) ==
    StepResult(state,
               WrapX(FAdd(state.x, FMulK(new_vx, dt, ONE))),
               FAdd(state.y, FMulK(new_vy, dt, ONE)),
               new_vx, new_vy,
               normalizeAngle(FAdd(state.theta, FMul(new_omega, dt))),
               new_omega)

\* lines 140, 142, 143 once the accelerations are known
Integrate(state, dt, a) ==
    Advance(state, dt,
            FAdd(state.omega, FMul(a.alpha, dt)),
            FAdd(state.vx, FMul(a.ax, dt)),
            FAdd(state.vy, FMul(a.ay, dt)))

updateSnowflake(state, dt, env) == Integrate(state, dt, Accel(state, env))

(***************************************************************************)
(* normalRandom (page.tsx 74-80).  The two uniform draws u and v enter     *)
(* only through r = sqrt(-2 ln u) and c = cos(2 pi v), both in 1/ONE; a    *)
(* draw is the pair <<r, c>>.  mean and variance are in whole units.       *)
(***************************************************************************)
normalRandom(mean, variance, draw) ==
    LET std == IF IsNaN(variance) \/ variance < 0 THEN NaN ELSE Fl(ISqrt(variance))
    IN  FAdd(mean, FMulK(FMulK(std, draw[1], ONE), draw[2], ONE))

(***************************************************************************)
(* createSnowflake (page.tsx 82-89).  rnd.u is Math.random() in 1/ONE,     *)
(* rnd.theta, rnd.mass and rnd.diameter are the draws of the three calls   *)
(* of normalRandom.  Degrees become angle units by * PI / 180.             *)
(***************************************************************************)
PI_UNITS == 12
DEG_HALF_TURN == 180

DegToRad(deg) == FDivK(FMul(deg, PI_UNITS), DEG_HALF_TURN, 1)

\* a spawn at rest, whatever the wind
createSnowflake_atRest(initParams, live, rnd) ==
    [x |-> FMulK(rnd.u, SIM_WIDTH, ONE),
     y |-> SPAWN_HEIGHT,
     vx |-> 0,
     vy |-> 0,
     theta |-> normalizeAngle(normalRandom(DegToRad(initParams.thetaMean),
                                           DegToRad(initParams.thetaVar), rnd.theta)),
     omega |-> 0,
     mass |-> normalRandom(initParams.massMean, initParams.massVar, rnd.mass),
     diameter |-> normalRandom(initParams.diameterMean, initParams.diameterVar,
                               rnd.diameter)]

createSnowflake(initParams, live, rnd) ==
    [x |-> FMulK(rnd.u, SIM_WIDTH, ONE),
     y |-> SPAWN_HEIGHT,
     vx |-> live.windSpeedTop,
     vy |-> 0,
     theta |-> normalizeAngle(normalRandom(DegToRad(initParams.thetaMean),
                                           DegToRad(initParams.thetaVar), rnd.theta)),
     omega |-> 0,
     mass |-> normalRandom(initParams.massMean, initParams.massVar, rnd.mass),
     diameter |-> normalRandom(initParams.diameterMean, initParams.diameterVar,
                               rnd.diameter)]

(***************************************************************************)
(* calculateLighting (page.tsx 476-514).  Angles from acos are turned to   *)
(* degrees by * 180 / PI; beamAngle is in degrees.                         *)
(***************************************************************************)
DIST_EPS == 1

\* 180 / Math.PI is one constant factor: degrees per angle unit
DEG_PER_UNIT == 15
RadToDeg(a) == FMul(a, DEG_PER_UNIT)

\* the light-to-particle geometry, lines 479-491
GeomDir(dx, dy, dist) ==
    [dist |-> dist,
     lightDirX |-> FDivK(dx, dist, ONE),
     lightDirY |-> FDivK(dy, dist, ONE),
     angleInDegrees |-> RadToDeg(Acos(FNeg(FDivK(dy, dist, ONE))))]
GeomOf(dx, dy) == GeomDir(dx, dy, Hypot(dx, dy))
LightGeom(x, y) == GeomOf(FSub(x, LIGHT_SOURCE_X), FSub(y, LIGHT_SOURCE_Y))

\* lines 484 and 494 negated: the point is inside the beam cone
InConeGeom(gm, live) ==
    ~FLt(gm.dist, DIST_EPS) /\ ~FGt(gm.angleInDegrees, FDiv(live.beamAngle, 2))
InCone(x, y, live) == InConeGeom(LightGeom(x, y), live)

\* lines 499-500, 503, 506
IntensityFalloff(gm, live) ==
    Cos(FDiv(FMulK(FDivK(gm.angleInDegrees, FDiv(live.beamAngle, 2), ONE),
                   PI_UNITS, ONE), 2))
DistanceFalloff(gm, live) ==
    FDivK(ONE, FAdd(ONE, FMul(FMul(live.lightFalloffCoeff, gm.dist), gm.dist)), ONE)
DotProduct(gm, nx, ny) ==
    FAbs(FAdd(FMulK(gm.lightDirX, ny, ONE), FMulK(gm.lightDirY, nx, ONE)))

\* lines 509-512: the terms inside the cone
TermsOf(live, intensityFalloff, distanceFalloff, dotProduct) ==
    [ambient |-> live.ambientLight,
     diffuse |-> FMulK(FMulK(live.diffuseLight, intensityFalloff, ONE),
                       distanceFalloff, ONE),
     specular |-> FMulK(FMulK(Pow(dotProduct, live.specularExponent),
                              live.specularStrength, ONE),
                        intensityFalloff, ONE),
     coeffTotal |-> FAdd(FAdd(live.ambientLight, live.diffuseLight),
                         live.specularStrength)]
LightTerms(gm, nx, ny, live) ==
    TermsOf(live, IntensityFalloff(gm, live), DistanceFalloff(gm, live),
            DotProduct(gm, nx, ny))

\* line 513
Shade(t) ==
    FMin(ONE, FDivK(FAdd(FAdd(t.ambient, t.diffuse), t.specular), t.coeffTotal, ONE))

LightAt(gm, nx, ny, live) ==
    IF FLt(gm.dist, DIST_EPS) THEN live.ambientLight
    ELSE IF FGt(gm.angleInDegrees, FDiv(live.beamAngle, 2)) THEN live.ambientLight
    ELSE Shade(LightTerms(gm, nx, ny, live))

calculateLighting(x, y, nx, ny, live) == LightAt(LightGeom(x, y), nx, ny, live)

(***************************************************************************)
(* The component SnowflakeSimulation (page.tsx 215-811): its refs and      *)
(* React state, the host's animation-frame queue and clock.                *)
(***************************************************************************)
VARIABLES
    snowflakes,         \* snowflakesRef.current
    trailHistory,       \* trailHistoryRef.current
    params,             \* React state params (InitParams)
    liveParams,         \* liveParams.current
    isPlaying,          \* React state isPlaying
    showTrail,          \* React state showTrail
    animationFrameRef,  \* animationFrameRef.current, 0 for undefined
    lastTimeRef,        \* lastTimeRef.current
    rafQueue,           \* callbacks requested and neither run nor cancelled
    now,                \* performance.now(), in ticks
    frame,              \* the call of animate in progress
    lastUpdated,        \* per index, `updated` of the latest sub-step
    respawned,          \* indices replaced in the latest sub-step
    probe,              \* one particle or one lighting call under test
    clicks,             \* operator actions taken so far
    lastClick           \* the latest operator action, and the frames begun since

sysVars == <<snowflakes, trailHistory, params, liveParams, isPlaying, showTrail,
             animationFrameRef, lastTimeRef, rafQueue, now, frame,
             lastUpdated, respawned, clicks, lastClick>>
vars == <<snowflakes, trailHistory, params, liveParams, isPlaying, showTrail,
          animationFrameRef, lastTimeRef, rafQueue, now, frame,
          lastUpdated, respawned, probe, clicks, lastClick>>

(***************************************************************************)
(* Bounds: population size, clock, and the values the operator and the     *)
(* random source can produce.                                              *)
(***************************************************************************)
MaxFlakes == 2
MaxNow == 2
MaxClicks == 3

\* liveParams as constructed, lines 217-230, on the model's grid
LiveInit ==
    [g |-> 16, airPressure |-> 11, windSpeedTop |-> 32, windSpeedBottom |-> 16,
     ambientLight |-> 2, diffuseLight |-> 11, specularStrength |-> 15,
     specularExponent |-> 15, beamAngle |-> 40, lightFalloffCoeff |-> 0]

\* params as constructed, lines 233-241 (numFlakes is the slider's maximum)
ParamsInit ==
    [numFlakes |-> MaxFlakes, massMean |-> 3, massVar |-> 1,
     diameterMean |-> 2, diameterVar |-> 1, thetaMean |-> 48, thetaVar |-> 72]

\* outcomes of the random source used by the component
RndSys ==
    { [u |-> 0, theta |-> <<16, 0>>, mass |-> <<16, 0>>, diameter |-> <<16, 0>>],
      [u |-> 8, theta |-> <<16, -16>>, mass |-> <<16, 16>>, diameter |-> <<16, -16>>],
      [u |-> 14, theta |-> <<16, 16>>, mass |-> <<16, 0>>, diameter |-> <<16, 0>>] }

NoClosure == [isPlaying |-> FALSE, showTrail |-> FALSE, params |-> ParamsInit]
NoFrame == [active |-> FALSE, step |-> 0, subDt |-> 0, cb |-> NoClosure]
NoProbe == [fn |-> "none"]
NoClick == [op |-> "mount", frames |-> 0]
Click(op) == [op |-> op, frames |-> 0]

Idle == ~frame.active

\* the operator acts between frames; the model follows MaxClicks of their actions
CanClick == Idle /\ clicks < MaxClicks

(***************************************************************************)
(* requestAnimationFrame and cancelAnimationFrame.  An id is distinct from *)
(* every id still held (by the queue or by animationFrameRef).             *)
(***************************************************************************)
FreshId(q, held) ==
    CHOOSE i \in 1..(Cardinality(q) + 2) :
        i # held /\ \A e \in q : e.id # i

\* a cancellation that removes every callback but the one named
Cancel_others(q, id) == {e \in q : e.id = id}
\* a cancellation that removes nothing
Cancel_none(q, id) == q
Cancel(q, id) == {e \in q : e.id # id}

(***************************************************************************)
(* resetSnowflakes (lines 272-279) with the InitParams p of its render     *)
(***************************************************************************)
\* a reset that replaces the population and leaves the trail buffers
ResetTo_populationOnly(p, rnds) ==
    /\ snowflakes' = [i \in 1..p.numFlakes |-> createSnowflake(p, liveParams, rnds[i])]
    /\ trailHistory' = trailHistory
    /\ lastUpdated' = <<>>
    /\ respawned' = {}
ResetTo(p, rnds) ==
    /\ snowflakes' = [i \in 1..p.numFlakes |-> createSnowflake(p, liveParams, rnds[i])]
    /\ trailHistory' = [i \in 1..p.numFlakes |-> <<>>]
    /\ lastUpdated' = <<>>
    /\ respawned' = {}

\* InitParams and environment values the operator selects in this model
InitChoices ==
    { [massMean |-> 3, massVar |-> 1, diameterMean |-> 2, diameterVar |-> 1,
       thetaMean |-> 48, thetaVar |-> 72],
      [massMean |-> 1, massVar |-> 1, diameterMean |-> 1, diameterVar |-> 1,
       thetaMean |-> 0, thetaVar |-> 15] }
EnvChoices ==
    { [g |-> 16, airPressure |-> 11, windSpeedTop |-> 32, windSpeedBottom |-> 16],
      [g |-> 0, airPressure |-> 11, windSpeedTop |-> 32, windSpeedBottom |-> 16],
      [g |-> 16, airPressure |-> 0, windSpeedTop |-> 0, windSpeedBottom |-> 0] }

WithInit(p, c) ==
    [p EXCEPT !.massMean = c.massMean, !.massVar = c.massVar,
              !.diameterMean = c.diameterMean, !.diameterVar = c.diameterVar,
              !.thetaMean = c.thetaMean, !.thetaVar = c.thetaVar]
WithEnv(l, e) ==
    [l EXCEPT !.g = e.g, !.airPressure = e.airPressure,
              !.windSpeedTop = e.windSpeedTop, !.windSpeedBottom = e.windSpeedBottom]

(***************************************************************************)
(* State after construction: the mount effects have run (lines 282-290,    *)
(* 461-473), so the population is freshly spawned and nothing is playing.  *)
(***************************************************************************)
SysInit ==
    /\ params = ParamsInit
    /\ liveParams = LiveInit
    /\ \E rnds \in [1..ParamsInit.numFlakes -> RndSys] :
           snowflakes = [i \in 1..ParamsInit.numFlakes |->
                            createSnowflake(ParamsInit, LiveInit, rnds[i])]
    /\ trailHistory = [i \in 1..ParamsInit.numFlakes |-> <<>>]
    /\ isPlaying = FALSE
    /\ showTrail = FALSE
    /\ animationFrameRef = 0
    /\ lastTimeRef = 0
    /\ rafQueue = {}
    /\ now = 0
    /\ frame = NoFrame
    /\ lastUpdated = <<>>
    /\ respawned = {}
    /\ clicks = 0
    /\ lastClick = NoClick

Init == SysInit /\ probe = NoProbe

(***************************************************************************)
(* animate (lines 293-458), run to completion: while frame.active no other *)
(* handler runs.  The host calls it with timestamp now, later than the     *)
(* time lastTimeRef holds.  dt counts quarter ticks (the code's / 1000 is  *)
(* the unit), so subDt counts ticks.                                       *)
(***************************************************************************)
DT_PER_TICK == 4

AnimateBegin ==
    /\ Idle
    /\ now > lastTimeRef
    /\ \E e \in rafQueue :
         LET dt == FMul(FSub(now, lastTimeRef), DT_PER_TICK)
         IN  /\ rafQueue' = rafQueue \ {e}
             /\ lastTimeRef' = now
             /\ frame' = [active |-> TRUE, step |-> 0,
                          subDt |-> FDiv(dt, NUM_SUBSTEPS), cb |-> e.cb]
    /\ lastClick' = [lastClick EXCEPT !.frames = lastClick.frames + 1]
    /\ UNCHANGED <<snowflakes, trailHistory, params, liveParams, isPlaying, showTrail,
                   animationFrameRef, now, lastUpdated, respawned, probe, clicks>>

\* a ground test that also takes the particle resting on the ground
BelowGround_orOn(flake) == FLe(flake.y, GROUND_LEVEL)

\* a ground test that is also true of an altitude that is not a number
BelowGround_notAbove(flake) == ~FLe(GROUND_LEVEL, flake.y)

\* lines 305-323: the body of the map for one index, given `updated`
BelowGround(flake) == FLt(flake.y, GROUND_LEVEL)
TrailOf(i) == IF i <= Len(trailHistory) THEN trailHistory[i] ELSE <<>>
\* a trail that survives the respawn
NewTrail_kept(i, updated, cb) ==
    IF cb.showTrail THEN Append(TrailOf(i), <<updated.x, updated.y>>)
    ELSE TrailOf(i)
NewTrail(i, updated, cb) ==
    IF BelowGround(updated) THEN <<>>
    ELSE IF cb.showTrail THEN Append(TrailOf(i), <<updated.x, updated.y>>)
    ELSE TrailOf(i)
\* a map that stores the updated particle wherever it is
NewFlake_kept(updated, cb, rnd) == updated
NewFlake(updated, cb, rnd) ==
    IF BelowGround(updated)
    THEN createSnowflake(cb.params, liveParams, rnd)
    ELSE updated
\* a trail array that loses its last entry in a sub-step
NewTrailLen_short(upd, cb) == Len(trailHistory) - 1

\* the array grows only when an index past its end is assigned
NewTrailLen(upd, cb) ==
    LET touched == {i \in DOMAIN upd : cb.showTrail \/ BelowGround(upd[i])}
        m == IF touched = {} THEN 0 ELSE CHOOSE k \in touched : \A j \in touched : j <= k
    IN  IF m > Len(trailHistory) THEN m ELSE Len(trailHistory)

\* a map that leaves out the particles that fell below the ground
MapFlakes_dropFallen(upd, cb, rnds) ==
    SelectSeq(upd, LAMBDA f : ~BelowGround(f))

\* the array returned by the map of lines 305-323; rnds holds the draws of the
\* indices that spawn
MapFlakes(upd, cb, rnds) ==
    [i \in DOMAIN upd |->
        IF BelowGround(upd[i])
        THEN NewFlake(upd[i], cb, rnds[i])
        ELSE NewFlake(upd[i], cb, <<>>)]

\* an environment snapshot taken when the component was constructed
CurrentLive_snapshot == LiveInit
\* liveParams.current, read at each call of line 306
CurrentLive == liveParams

\* one pass of the loop of line 304
SubStep ==
    /\ frame.active
    /\ frame.step < NUM_SUBSTEPS
    /\ \E upd \in {[i \in 1..Len(snowflakes) |->
                       updateSnowflake(snowflakes[i], frame.subDt, CurrentLive)]} :
           /\ \E rnds \in [{i \in DOMAIN upd : BelowGround(upd[i])} -> RndSys] :
                  snowflakes' = MapFlakes(upd, frame.cb, rnds)
           /\ trailHistory' = [i \in 1..NewTrailLen(upd, frame.cb) |->
                                  IF i <= Len(snowflakes) THEN NewTrail(i, upd[i], frame.cb)
                                  ELSE trailHistory[i]]
           /\ lastUpdated' = upd
           /\ respawned' = {i \in DOMAIN upd : BelowGround(upd[i])}
    /\ frame' = [frame EXCEPT !.step = frame.step + 1]
    /\ UNCHANGED <<params, liveParams, isPlaying, showTrail, animationFrameRef,
                   lastTimeRef, rafQueue, now, probe, clicks, lastClick>>

\* lines 455-457, after the render: the closure's isPlaying decides
AnimateEnd ==
    /\ frame.active
    /\ frame.step = NUM_SUBSTEPS
    /\ IF frame.cb.isPlaying
       THEN LET id == FreshId(rafQueue, animationFrameRef)
            IN  /\ rafQueue' = rafQueue \cup {[id |-> id, cb |-> frame.cb]}
                /\ animationFrameRef' = id
       ELSE UNCHANGED <<rafQueue, animationFrameRef>>
    /\ frame' = NoFrame
    /\ UNCHANGED <<snowflakes, trailHistory, params, liveParams, isPlaying, showTrail,
                   lastTimeRef, now, lastUpdated, respawned, probe, clicks, lastClick>>

(***************************************************************************)
(* The operator's controls.                                                *)
(***************************************************************************)
\* a baseline that is left where the last frame put it
StartTime_kept == lastTimeRef
\* performance.now() of line 463
StartTime == now

\* Play/Pause button (line 771) and the effect on isPlaying (lines 461-473):
\* the previous effect's cleanup, then the effect body
TogglePlay ==
    /\ CanClick
    /\ clicks' = clicks + 1
    /\ lastClick' = Click(IF isPlaying THEN "pause" ELSE "play")
    /\ isPlaying' = ~isPlaying
    /\ LET cleaned == IF animationFrameRef # 0
                      THEN Cancel(rafQueue, animationFrameRef) ELSE rafQueue
       IN  IF ~isPlaying
           THEN LET id == FreshId(cleaned, animationFrameRef)
                IN  /\ lastTimeRef' = StartTime
                    /\ rafQueue' = cleaned \cup
                           {[id |-> id,
                             cb |-> [isPlaying |-> TRUE, showTrail |-> showTrail,
                                     params |-> params]]}
                    /\ animationFrameRef' = id
           ELSE /\ rafQueue' = cleaned
                /\ UNCHANGED <<lastTimeRef, animationFrameRef>>
    /\ UNCHANGED <<snowflakes, trailHistory, params, liveParams, showTrail, now, frame,
                   lastUpdated, respawned, probe>>

\* Reset button (lines 777-780): resetSnowflakes, then setIsPlaying(false),
\* whose effect runs only if isPlaying changes
ResetClick ==
    /\ CanClick
    /\ clicks' = clicks + 1
    /\ lastClick' = Click("reset")
    /\ \E rnds \in [1..params.numFlakes -> RndSys] : ResetTo(params, rnds)
    /\ isPlaying' = FALSE
    /\ rafQueue' = IF isPlaying /\ animationFrameRef # 0
                   THEN Cancel(rafQueue, animationFrameRef) ELSE rafQueue
    /\ UNCHANGED <<params, liveParams, showTrail, animationFrameRef, lastTimeRef, now,
                   frame, probe>>

\* Number of Snowflakes slider (line 594) and the effect on params.numFlakes
\* (lines 282-290)
SetNumFlakes ==
    /\ CanClick
    /\ clicks' = clicks + 1
    /\ lastClick' = Click("numFlakes")
    /\ \E n \in 1..MaxFlakes :
         /\ n # params.numFlakes
         /\ params' = [params EXCEPT !.numFlakes = n]
         /\ \E rnds \in [1..n -> RndSys] : ResetTo(params', rnds)
    /\ UNCHANGED <<liveParams, isPlaying, showTrail, animationFrameRef, lastTimeRef,
                   rafQueue, now, frame, probe>>

\* the mass, diameter and angle sliders (lines 520-548): no effect depends on them
SetInitParams ==
    /\ CanClick
    /\ clicks' = clicks + 1
    /\ lastClick' = Click("initParams")
    /\ \E c \in InitChoices :
         /\ WithInit(params, c) # params
         /\ params' = WithInit(params, c)
    /\ UNCHANGED <<snowflakes, trailHistory, liveParams, isPlaying, showTrail,
                   animationFrameRef, lastTimeRef, rafQueue, now, frame,
                   lastUpdated, respawned, probe>>

\* the gravity, pressure and wind sliders (lines 560-629) write liveParams.current
SetLive ==
    /\ CanClick
    /\ clicks' = clicks + 1
    /\ lastClick' = Click("live")
    /\ \E e \in EnvChoices :
         /\ WithEnv(liveParams, e) # liveParams
         /\ liveParams' = WithEnv(liveParams, e)
    /\ UNCHANGED <<snowflakes, trailHistory, params, isPlaying, showTrail,
                   animationFrameRef, lastTimeRef, rafQueue, now, frame,
                   lastUpdated, respawned, probe>>

\* Show Trail checkbox (lines 792-796)
ToggleTrail ==
    /\ CanClick
    /\ clicks' = clicks + 1
    /\ lastClick' = Click("trail")
    /\ showTrail' = ~showTrail
    /\ UNCHANGED <<snowflakes, trailHistory, params, liveParams, isPlaying,
                   animationFrameRef, lastTimeRef, rafQueue, now, frame,
                   lastUpdated, respawned, probe>>

\* time passes between handlers
Tick ==
    /\ Idle
    /\ now < MaxNow
    /\ now' = now + 1
    /\ UNCHANGED <<snowflakes, trailHistory, params, liveParams, isPlaying, showTrail,
                   animationFrameRef, lastTimeRef, rafQueue, frame,
                   lastUpdated, respawned, probe, clicks, lastClick>>

Next ==
    \/ AnimateBegin
    \/ SubStep
    \/ AnimateEnd
    \/ TogglePlay
    \/ ResetClick
    \/ SetNumFlakes
    \/ SetInitParams
    \/ SetLive
    \/ ToggleTrail
    \/ Tick

Spec == Init /\ [][Next]_vars

(***************************************************************************)
(* One particle followed from createSnowflake through consecutive calls of *)
(* updateSnowflake, as the loop of line 304 makes them: the next call      *)
(* takes the previous result while that result is not below the ground.    *)
(* The component itself stays unmounted.                                   *)
(***************************************************************************)
MaxSteps == 3

SysQuiet ==
    /\ snowflakes = <<>>
    /\ trailHistory = <<>>
    /\ params = ParamsInit
    /\ liveParams = LiveInit
    /\ isPlaying = FALSE
    /\ showTrail = FALSE
    /\ animationFrameRef = 0
    /\ lastTimeRef = 0
    /\ rafQueue = {}
    /\ now = 0
    /\ frame = NoFrame
    /\ lastUpdated = <<>>
    /\ respawned = {}
    /\ clicks = 0
    /\ lastClick = NoClick

\* sub-step lengths, environments and draws of the single-particle runs
StepDts == {1, 2}
EnvStep ==
    { [g |-> 16, airPressure |-> 0, windSpeedTop |-> 32, windSpeedBottom |-> 32],
      [g |-> 16, airPressure |-> 11, windSpeedTop |-> 32, windSpeedBottom |-> 32],
      [g |-> 16, airPressure |-> 11, windSpeedTop |-> 8, windSpeedBottom |-> 0],
      [g |-> 5, airPressure |-> 0, windSpeedTop |-> -16, windSpeedBottom |-> -16],
      [g |-> 16, airPressure |-> 0, windSpeedTop |-> 0, windSpeedBottom |-> 0] }
RndStep ==
    { [u |-> 0, theta |-> <<16, 0>>, mass |-> <<16, 16>>, diameter |-> <<16, 0>>],
      [u |-> 8, theta |-> <<16, -16>>, mass |-> <<16, -16>>, diameter |-> <<16, 16>>],
      [u |-> 14, theta |-> <<16, 16>>, mass |-> <<16, 0>>, diameter |-> <<16, -16>>] }

InitStep ==
    /\ SysQuiet
    /\ \E c \in InitChoices, e \in EnvStep, r \in RndStep :
         \E born \in {createSnowflake(WithInit(ParamsInit, c), e, r)} :
             probe = [fn |-> "spawn", born |-> born, pre |-> born, dt |-> 0,
                      env |-> e, out |-> born, n |-> 0]

ProbeUpdate ==
    /\ probe.fn \in {"spawn", "step"}
    /\ probe.n < MaxSteps
    /\ ~BelowGround(probe.out)
    /\ \E dt \in StepDts, e \in EnvStep :
         probe' = [fn |-> "step", born |-> probe.born, pre |-> probe.out, dt |-> dt,
                   env |-> e, out |-> updateSnowflake(probe.out, dt, e),
                   n |-> probe.n + 1]
    /\ UNCHANGED sysVars

NextStep == ProbeUpdate

SpecStep == InitStep /\ [][NextStep]_vars

(***************************************************************************)
(* calculateLighting called as the renderer calls it (page.tsx 399-401,    *)
(* 428-431) for one particle position and orientation, under light         *)
(* settings within the ranges of the sliders (page.tsx 632-766).           *)
(***************************************************************************)
LightXs == {0, 8, 10, 14, 20}
LightYs == {2, 10, 16, 18, 20}
LightThetas == {0, 3, 6, 15}
LightCoeffs ==
    { [ambientLight |-> 2, diffuseLight |-> 11, specularStrength |-> 15],
      [ambientLight |-> 0, diffuseLight |-> 0, specularStrength |-> 0],
      [ambientLight |-> 16, diffuseLight |-> 16, specularStrength |-> 16],
      [ambientLight |-> 0, diffuseLight |-> 0, specularStrength |-> 16] }
LightShapes ==
    { [specularExponent |-> 15, beamAngle |-> 40, lightFalloffCoeff |-> 0],
      [specularExponent |-> 0, beamAngle |-> 5, lightFalloffCoeff |-> 16],
      [specularExponent |-> 100, beamAngle |-> 176, lightFalloffCoeff |-> 1] }

WithLight(l, c, sh) ==
    [l EXCEPT !.ambientLight = c.ambientLight, !.diffuseLight = c.diffuseLight,
              !.specularStrength = c.specularStrength,
              !.specularExponent = sh.specularExponent, !.beamAngle = sh.beamAngle,
              !.lightFalloffCoeff = sh.lightFalloffCoeff]

InitLight ==
    /\ SysQuiet
    /\ \E x \in LightXs, y \in LightYs, th \in LightThetas,
          c \in LightCoeffs, sh \in LightShapes :
         probe = [fn |-> "flake", x |-> x, y |-> y, theta |-> th,
                  live |-> WithLight(LiveInit, c, sh)]

ProbeLight ==
    /\ probe.fn = "flake"
    /\ probe' = [fn |-> "light", x |-> probe.x, y |-> probe.y, theta |-> probe.theta,
                 live |-> probe.live,
                 brightness |-> calculateLighting(probe.x, probe.y, Cos(probe.theta),
                                                  Sin(probe.theta), probe.live)]
    /\ UNCHANGED sysVars

NextLight == ProbeLight

SpecLight == InitLight /\ [][NextLight]_vars

(***************************************************************************)
(* The mounted component with one particle, no gravity, no air, trail      *)
(* recording on, the host running a frame at every tick.  The operator's   *)
(* earlier actions led to this state; pressing Play remains.               *)
(***************************************************************************)
MaxNowTrail == 13

\* sim.tsx line 274 names the number of positions to keep
TRAIL_KEEP == 50

Floating == [g |-> 0, airPressure |-> 0, windSpeedTop |-> 32, windSpeedBottom |-> 32]

InitTrail ==
    /\ params = [ParamsInit EXCEPT !.numFlakes = 1]
    /\ liveParams = WithEnv(LiveInit, Floating)
    /\ \E r \in RndSys : snowflakes = <<createSnowflake(params, liveParams, r)>>
    /\ trailHistory = << <<>> >>
    /\ isPlaying = FALSE
    /\ showTrail = TRUE
    /\ animationFrameRef = 0
    /\ lastTimeRef = 0
    /\ rafQueue = {}
    /\ now = 0
    /\ frame = NoFrame
    /\ lastUpdated = <<>>
    /\ respawned = {}
    /\ clicks = MaxClicks - 1
    /\ lastClick = NoClick
    /\ probe = NoProbe

\* a tick of the clock when no callback is due
TickTrail ==
    /\ Idle
    /\ now < MaxNowTrail
    /\ rafQueue = {} \/ now = lastTimeRef
    /\ now' = now + 1
    /\ UNCHANGED <<snowflakes, trailHistory, params, liveParams, isPlaying, showTrail,
                   animationFrameRef, lastTimeRef, rafQueue, frame,
                   lastUpdated, respawned, probe, clicks, lastClick>>

NextTrail ==
    \/ AnimateBegin
    \/ SubStep
    \/ AnimateEnd
    \/ TogglePlay
    \/ TickTrail

SpecTrail == InitTrail /\ [][NextTrail]_vars

IsStep == probe.fn = "step"

\* C1: after every call of updateSnowflake the returned x satisfies
\* 0 <= x < SIM_WIDTH, whatever the position, velocity and dt were
\* (stated for the calls whose result is a finite number).
C1_WrapInvariant ==
    IsStep /\ IsFin(probe.out.x) => 0 <= probe.out.x /\ probe.out.x < SIM_WIDTH

\* C1: a call whose x + new_vx * dt is exactly SIM_WIDTH returns it unwrapped
C1_AtWidth ==
    /\ IsStep
    /\ FAdd(probe.pre.x, FMulK(probe.out.vx, probe.dt, ONE)) = SIM_WIDTH
    /\ probe.out.x = SIM_WIDTH

\* C2: every theta produced by createSnowflake or by updateSnowflake
\* satisfies 0 <= theta < 2 pi (stated for finite theta).
C2_ThetaInRange ==
    probe.fn \in {"spawn", "step"} /\ IsFin(probe.out.theta)
        => 0 <= probe.out.theta /\ probe.out.theta < TWO_PI

\* C2: createSnowflake returns theta equal to 2 pi
C2_SpawnAtTwoPi == probe.fn = "spawn" /\ probe.out.theta = TWO_PI

\* C5: after any number of consecutive calls of updateSnowflake without a
\* respawn, mass and diameter equal those createSnowflake gave the particle.
C5_MassDiameterKept ==
    IsStep => probe.out.mass = probe.born.mass /\ probe.out.diameter = probe.born.diameter

\* C5: several calls have been made and the particle has moved and turned
C5_AfterSteps ==
    /\ IsStep
    /\ probe.n >= 2
    /\ probe.out.y # probe.born.y
    /\ probe.out.vx # probe.born.vx
    /\ probe.out.mass = probe.born.mass

\* C10: when the speed relative to the wind is at most the threshold, ax is 0
\* and ay is -g, so the returned velocity is (vx, vy - g * dt), for every
\* orientation, mass, diameter and air density.
C10_StillAirOnlyGravity ==
    IsStep /\ FLe(Vmag(probe.pre, probe.env), VMAG_EPS)
        => LET a == Accel(probe.pre, probe.env)
           IN  /\ a.ax = 0
               /\ a.ay = FNeg(probe.env.g)
               /\ probe.out.vx = probe.pre.vx
               /\ probe.out.vy = FSub(probe.pre.vy, FMul(probe.env.g, probe.dt))

\* C10: a non-zero relative speed at the threshold, a massless particle,
\* air of non-zero density
C10_AtThreshold ==
    /\ IsStep
    /\ Vmag(probe.pre, probe.env) = VMAG_EPS
    /\ probe.pre.mass = 0
    /\ probe.env.airPressure > 0
    /\ probe.out.vy = FSub(probe.pre.vy, FMul(probe.env.g, probe.dt))

\* C3: calculateLighting returns a value in [0, 1] for every finite position
\* and normal and every setting of the light sliders, inside and outside the
\* beam cone.
C3_BrightnessInRange ==
    probe.fn = "light" => FLe(0, probe.brightness) /\ FLe(probe.brightness, ONE)

\* C3: inside the cone with ambient, diffuse and specular all 0 the result is
\* not a number
C3_DarkInsideCone ==
    /\ probe.fn = "light"
    /\ InCone(probe.x, probe.y, probe.live)
    /\ probe.live.ambientLight = 0
    /\ probe.live.diffuseLight = 0
    /\ probe.live.specularStrength = 0
    /\ IsNaN(probe.brightness)

\* the latest sub-step of the frame in progress has just run
AfterSubStep == frame.active /\ frame.step > 0

\* C4: in a sub-step, a particle whose updated altitude equals the ground
\* level is stored as updated, and a particle whose updated altitude is
\* strictly below it is replaced by a freshly spawned particle.
C4_GroundBoundary ==
    AfterSubStep =>
        \A i \in DOMAIN lastUpdated :
            /\ lastUpdated[i].y = GROUND_LEVEL => snowflakes[i] = lastUpdated[i]
            /\ FLt(lastUpdated[i].y, GROUND_LEVEL) =>
                   /\ snowflakes[i].y = SPAWN_HEIGHT
                   /\ snowflakes[i].vx = liveParams.windSpeedTop
                   /\ snowflakes[i].vy = 0
                   /\ snowflakes[i].omega = 0

\* C4: a sub-step left a particle exactly on the ground
C4_OnGround ==
    /\ AfterSubStep
    /\ \E i \in DOMAIN lastUpdated :
           lastUpdated[i].y = GROUND_LEVEL /\ snowflakes[i] = lastUpdated[i]

\* C6: when the particle at index i is respawned in a sub-step, the trail at
\* index i is empty right after that sub-step, whether or not trail recording
\* is on.
C6_TrailClearedOnRespawn ==
    AfterSubStep => \A i \in respawned : trailHistory[i] = <<>>

\* C6: a respawn under trail recording, next to a particle whose trail holds
\* positions
C6_RespawnWhileRecording ==
    /\ AfterSubStep
    /\ frame.cb.showTrail
    /\ \E i \in respawned : trailHistory[i] = <<>>
    /\ \E j \in DOMAIN trailHistory : trailHistory[j] # <<>>

\* C7: there is a fixed maximum length that no particle's trail exceeds, also
\* for a particle that never reaches the ground (gravity 0).
C7_TrailBounded ==
    \A i \in DOMAIN trailHistory : Len(trailHistory[i]) <= TRAIL_KEEP

\* C7: under gravity 0 a trail longer than the number sim.tsx names
C7_LongTrail ==
    /\ liveParams.g = 0
    /\ \E i \in DOMAIN trailHistory : Len(trailHistory[i]) > TRAIL_KEEP

\* no sub-step has run since resetSnowflakes
AfterReset == lastUpdated = <<>>

\* C8: after resetSnowflakes the population holds exactly numFlakes fresh
\* particles and there are exactly numFlakes trails, all empty; each particle
\* has x in [0, W), y at the spawn height, theta in [0, 2 pi) and omega 0.
C8_ResetState ==
    AfterReset =>
        /\ Len(snowflakes) = params.numFlakes
        /\ Len(trailHistory) = params.numFlakes
        /\ \A i \in DOMAIN trailHistory : trailHistory[i] = <<>>
        /\ \A i \in DOMAIN snowflakes :
               /\ FLe(0, snowflakes[i].x) /\ FLt(snowflakes[i].x, SIM_WIDTH)
               /\ snowflakes[i].y = SPAWN_HEIGHT
               /\ FLe(0, snowflakes[i].theta) /\ FLt(snowflakes[i].theta, TWO_PI)
               /\ snowflakes[i].omega = 0

\* C8: resetSnowflakes, run by the Reset button, spawned a particle with
\* theta equal to 2 pi
C8_ResetAtTwoPi ==
    /\ AfterReset
    /\ clicks > 0
    /\ \E i \in DOMAIN snowflakes : snowflakes[i].theta = TWO_PI

\* C9: frames never change the number of particles: it stays the numFlakes
\* of the last reset, a respawn replacing the particle at its index.
C9_PopulationSize == Len(snowflakes) = params.numFlakes

\* C9: a frame in which a particle was respawned has ended
C9_AfterRespawnFrame ==
    /\ ~frame.active
    /\ respawned # {}
    /\ Len(snowflakes) = params.numFlakes
    /\ Len(snowflakes) > 1

\* a particle of the data model: mass and diameter are not zero (whatever
\* their sign) and its speed relative to the wind is a finite number
Regular(state, env) ==
    /\ state.mass # 0
    /\ state.diameter # 0
    /\ IsFin(Vmag(state, env))

JustReset == lastClick.op \in {"mount", "reset", "numFlakes"} /\ lastClick.frames = 0

\* what createSnowflake promises of the particle it returns under `live`
Spawned(flake, live) ==
    /\ 0 <= flake.x
    /\ flake.x < SIM_WIDTH
    /\ flake.y = SPAWN_HEIGHT
    /\ flake.vx = live.windSpeedTop
    /\ flake.vy = 0
    /\ flake.omega = 0

FirstStep == IsStep /\ probe.n = 1 /\ probe.env.windSpeedTop = probe.born.vx

\* C13: in the first call of updateSnowflake after createSnowflake, the
\* particle's horizontal velocity relative to the wind interpolated at its
\* height (the spawn height) is 0, for every windSpeedTop and windSpeedBottom.
C13_MatchedAtSpawn == FirstStep => RelativeVx(probe.pre, probe.env) = 0

\* C13: a first step in a wind that differs between top and bottom, where the
\* particle moves relative to the air at the spawn height
C13_ShearAtSpawn ==
    /\ FirstStep
    /\ probe.pre.y = SPAWN_HEIGHT
    /\ probe.env.windSpeedTop # probe.env.windSpeedBottom
    /\ RelativeVx(probe.pre, probe.env) # 0

\* steps of the component: the animation starts, a frame callback begins
Starts == ~isPlaying /\ isPlaying'
FrameBegins == ~frame.active /\ frame'.active

\* C14: starting the animation sets lastTimeRef to the time of starting; a
\* frame callback takes dt = its timestamp - lastTimeRef and sets lastTimeRef
\* to its timestamp; nothing else writes lastTimeRef.  So the first frame
\* after a start measures from the start, later frames from the previous
\* frame, and time spent paused is never part of a dt.
C14_FrameDt ==
    [][/\ Starts => lastTimeRef' = now
       /\ FrameBegins =>
            /\ frame'.subDt = FDiv(FMul(FSub(now, lastTimeRef), DT_PER_TICK),
                                   NUM_SUBSTEPS)
            /\ lastTimeRef' = now
       /\ lastTimeRef' # lastTimeRef => Starts \/ FrameBegins]_vars

\* C14: the first frame after a start made one tick after mounting: it comes
\* at tick 2 and its dt is one tick
C14_FirstFrameAfterIdle ==
    /\ frame.active
    /\ frame.step = 0
    /\ lastClick = [op |-> "play", frames |-> 1]
    /\ now = 2
    /\ frame.subDt = 1

\* C15: while the animation is stopped (after Pause or after the Reset
\* button, until the next Play) no frame callback is pending and none is
\* running, so the frame loop changes neither snowflakes nor trailHistory.
C15_StoppedNoFrames == ~isPlaying => rafQueue = {} /\ ~frame.active

\* C15: paused after a frame has run, and the clock has moved on since that
\* frame without another one
C15_PausedAfterFrames ==
    /\ ~isPlaying
    /\ lastClick.op = "pause"
    /\ lastUpdated # <<>>
    /\ now > lastTimeRef

\* C16: a change of params.numFlakes is followed by a full reset: snowflakes
\* and trailHistory both get exactly the new numFlakes entries (fresh
\* particles, empty trails), playing or paused; a change of any other field
\* of params leaves snowflakes and trailHistory as they are.
C16_ResetOnNumFlakes ==
    [][/\ params'.numFlakes # params.numFlakes =>
            /\ Len(snowflakes') = params'.numFlakes
            /\ Len(trailHistory') = params'.numFlakes
            /\ \A i \in DOMAIN snowflakes' : Spawned(snowflakes'[i], liveParams)
            /\ \A i \in DOMAIN trailHistory' : trailHistory'[i] = <<>>
            /\ isPlaying' = isPlaying
       /\ params' # params /\ params'.numFlakes = params.numFlakes =>
            /\ snowflakes' = snowflakes
            /\ trailHistory' = trailHistory]_vars

\* C16: numFlakes changed while the animation was playing, after a frame had
\* advanced the population
C16_ResizedWhilePlaying ==
    /\ isPlaying
    /\ lastClick = [op |-> "numFlakes", frames |-> 0]
    /\ animationFrameRef = 2
    /\ params.numFlakes # ParamsInit.numFlakes
    /\ Len(snowflakes) = params.numFlakes
    /\ Len(trailHistory) = params.numFlakes

\* a step of the component: one pass of the sub-step loop
SubStepTaken == frame.active /\ frame'.active /\ frame'.step = frame.step + 1

\* C17: the frame loop holds no copy of the environment: every call of
\* updateSnowflake in a sub-step takes liveParams as the operator last set
\* it, the same for all particles, and a frame leaves liveParams alone.
C17_LiveEnvironment ==
    [][/\ SubStepTaken =>
            /\ \A i \in DOMAIN snowflakes :
                 lastUpdated'[i] = updateSnowflake(snowflakes[i], frame.subDt, liveParams)
            /\ liveParams' = liveParams
       /\ FrameBegins => liveParams' = liveParams]_vars

\* C17: the operator changed the environment between the first and the second
\* frame of a run, and the second frame has made a sub-step
C17_ChangedBetweenFrames ==
    /\ frame.active
    /\ frame.step > 0
    /\ lastClick = [op |-> "live", frames |-> 1]
    /\ animationFrameRef = 2
    /\ liveParams # LiveInit

\* a step of the component: a frame callback returns
FrameEnds == frame.active /\ ~frame'.active

\* C18: a frame callback makes exactly 4 sub-steps, each of length
\* frameDt / 4, and nothing else; a sub-step replaces every index of
\* snowflakes once, index i by updateSnowflake of the particle that was at
\* index i (or by a fresh particle when that result is below the ground), so
\* no particle's update reads another particle.
C18_FourSubSteps ==
    [][/\ FrameBegins =>
            /\ frame'.step = 0
            /\ frame'.subDt = FDiv(FMul(FSub(now, lastTimeRef), DT_PER_TICK), 4)
       /\ frame.active /\ frame'.active => SubStepTaken
       /\ SubStepTaken =>
            /\ frame.step < 4
            /\ frame'.subDt = frame.subDt
            /\ DOMAIN lastUpdated' = DOMAIN snowflakes
            /\ DOMAIN snowflakes' = DOMAIN snowflakes
            /\ \A i \in DOMAIN snowflakes :
                 /\ lastUpdated'[i] =
                        updateSnowflake(snowflakes[i], frame.subDt, liveParams)
                 /\ i \notin respawned' => snowflakes'[i] = lastUpdated'[i]
       /\ FrameEnds => frame.step = 4]_vars

\* C18: the fourth sub-step of a frame over two particles in different
\* states, none of them respawned in it
C18_FourthSubStep ==
    /\ frame.active
    /\ frame.step = 4
    /\ Len(snowflakes) = 2
    /\ snowflakes[1] # snowflakes[2]
    /\ respawned = {}
    /\ snowflakes = lastUpdated

\* the specular term as the claim C19 states it, with L . n = Lx * nx + Ly * ny
SpecularOfNormal(gm, nx, ny, live) ==
    FMulK(FMulK(Pow(FAbs(FAdd(FMulK(gm.lightDirX, nx, ONE),
                              FMulK(gm.lightDirY, ny, ONE))),
                    live.specularExponent),
                live.specularStrength, ONE),
          IntensityFalloff(gm, live), ONE)

\* C19: inside the beam cone the specular term of calculateLighting is
\* |L . n| ^ specularExponent * specularStrength * intensityFalloff, where
\* L . n = lightDirX * nx + lightDirY * ny for the normal (nx, ny) passed in;
\* the distance falloff multiplies the diffuse term only.
C19_SpecularOfFaceNormal ==
    probe.fn = "light" /\ InCone(probe.x, probe.y, probe.live)
        => /\ LightTerms(LightGeom(probe.x, probe.y), Cos(probe.theta),
                         Sin(probe.theta), probe.live).specular
              = SpecularOfNormal(LightGeom(probe.x, probe.y), Cos(probe.theta),
                                 Sin(probe.theta), probe.live)
           /\ probe.brightness
              = Shade([LightTerms(LightGeom(probe.x, probe.y), Cos(probe.theta),
                                  Sin(probe.theta), probe.live)
                       EXCEPT !.specular =
                           SpecularOfNormal(LightGeom(probe.x, probe.y),
                                            Cos(probe.theta), Sin(probe.theta),
                                            probe.live)])

\* C19: a particle straight below the light whose normal (1, 0) is at right
\* angles to the light direction (0, -1): L . n = 0, yet the specular term is
\* the full specularStrength * intensityFalloff
C19_NormalAcrossBeam ==
    /\ probe.fn = "light"
    /\ InCone(probe.x, probe.y, probe.live)
    /\ probe.x = LIGHT_SOURCE_X
    /\ probe.theta = 0
    /\ probe.live.specularStrength > 0
    /\ probe.live.specularExponent > 0
    /\ SpecularOfNormal(LightGeom(probe.x, probe.y), Cos(probe.theta),
                        Sin(probe.theta), probe.live) = 0
    /\ LightTerms(LightGeom(probe.x, probe.y), Cos(probe.theta),
                  Sin(probe.theta), probe.live).specular > 0

\* C20: a sub-step made while showTrail is on appends each particle's
\* post-step position to its trail, and a sub-step made while showTrail is
\* off appends nothing, also when the operator toggles Show Trail while the
\* animation is playing (the particles respawned in the sub-step, whose
\* trails are cleared, are left out).
C20_TrailFollowsCheckbox ==
    [][SubStepTaken =>
          \A i \in DOMAIN snowflakes \ respawned' :
              trailHistory'[i] =
                  IF showTrail
                  THEN Append(TrailOf(i), <<lastUpdated'[i].x, lastUpdated'[i].y>>)
                  ELSE TrailOf(i)]_vars

\* C20: Show Trail was switched on while the animation was playing; the first
\* sub-step of the next frame has run, no particle was respawned, and every
\* trail is still empty
C20_SwitchedOnWhilePlaying ==
    /\ frame.active
    /\ frame.step = 1
    /\ isPlaying
    /\ showTrail
    /\ ~frame.cb.showTrail
    /\ lastClick = [op |-> "trail", frames |-> 1]
    /\ respawned = {}
    /\ \A i \in DOMAIN trailHistory : trailHistory[i] = <<>>

\* `out` follows from `state` by the accelerations a in the order of lines
\* 140-151: omega, then theta with the new omega, then v, then the position
\* with the new v
InOrder(state, dt, a, out) ==
    /\ out.omega = FAdd(state.omega, FMul(a.alpha, dt))
    /\ out.theta = normalizeAngle(FAdd(state.theta, FMul(out.omega, dt)))
    /\ out.vx = FAdd(state.vx, FMul(a.ax, dt))
    /\ out.vy = FAdd(state.vy, FMul(a.ay, dt))
    /\ out.x = WrapX(FAdd(state.x, FMulK(out.vx, dt, ONE)))
    /\ out.y = FAdd(state.y, FMulK(out.vy, dt, ONE))

\* C21: one call of updateSnowflake takes ax, ay and alpha once, from the
\* pre-step state and the environment, and then sets omega' = omega + alpha * dt,
\* theta' = normalizeAngle(theta + omega' * dt), v' = v + a * dt,
\* x' = wrap(x + vx' * dt), y' = y + vy' * dt: orientation and position
\* advance with the updated velocities.
C21_UpdateOrder ==
    IsStep => InOrder(probe.pre, probe.dt, Accel(probe.pre, probe.env), probe.out)

\* C21: a step in which the velocities and the angular velocity changed, so
\* that advancing with the pre-step values would have given another altitude
\* and another orientation
C21_VelocitiesChanged ==
    /\ IsStep
    /\ IsFin(probe.out.y)
    /\ IsFin(probe.out.theta)
    /\ probe.out.vy # probe.pre.vy
    /\ probe.out.omega # probe.pre.omega
    /\ probe.out.y # FAdd(probe.pre.y, FMulK(probe.pre.vy, probe.dt, ONE))
    /\ probe.out.theta #
           normalizeAngle(FAdd(probe.pre.theta, FMul(probe.pre.omega, probe.dt)))

\* a step of the component: the Reset button or a change of numFlakes
ResetTaken == clicks' = clicks + 1 /\ lastClick'.op \in {"reset", "numFlakes"}

\* C22: a particle whose altitude is not a number is never replaced by the
\* ground test: in every later sub-step `y < GROUND_LEVEL` is false for it,
\* it is not respawned and its altitude stays not a number; it leaves the
\* population only at a reset.
C22_NaNNeverRespawned ==
    [][/\ SubStepTaken =>
            \A i \in DOMAIN snowflakes :
                IsNaN(lastUpdated'[i].y) =>
                    /\ i \notin respawned'
                    /\ snowflakes'[i] = lastUpdated'[i]
       /\ \A i \in DOMAIN snowflakes :
             IsNaN(snowflakes[i].y) =>
                 \/ ResetTaken
                 \/ /\ i \in DOMAIN snowflakes'
                    /\ IsNaN(snowflakes'[i].y)
                    /\ i \notin respawned']_vars

\* C22: a particle of diameter 0 whose altitude was not a number before the
\* latest sub-step and still is after it
C22_NaNKept ==
    /\ AfterSubStep
    /\ lastClick.frames = 2
    /\ \E i \in DOMAIN snowflakes :
         /\ snowflakes[i].diameter = 0
         /\ IsNaN(snowflakes[i].y)
         /\ IsNaN(lastUpdated[i].y)
         /\ i \notin respawned

\* C23: in every state (after every sub-step and after every reset) every
\* particle of snowflakes whose altitude is a finite number has
\* y >= GROUND_LEVEL: a particle updated to below the ground is not stored,
\* the same sub-step puts a particle at SPAWN_HEIGHT in its place.
C23_AboveGround ==
    /\ \A i \in DOMAIN snowflakes :
          IsFin(snowflakes[i].y) => FLe(GROUND_LEVEL, snowflakes[i].y)
    /\ AfterSubStep =>
          \A i \in DOMAIN lastUpdated :
              BelowGround(lastUpdated[i]) => snowflakes[i].y = SPAWN_HEIGHT

\* C23: a sub-step took a particle to a finite altitude below the ground and
\* stored a particle at the spawn height at its index
C23_SteppedBelow ==
    /\ AfterSubStep
    /\ \E i \in DOMAIN lastUpdated :
         /\ IsFin(lastUpdated[i].y)
         /\ lastUpdated[i].y < GROUND_LEVEL
         /\ i \in respawned
         /\ snowflakes[i].y = SPAWN_HEIGHT

\* C24: in every reachable state trailHistory has exactly as many entries as
\* snowflakes, each of them a sequence (possibly empty) of positions; no
\* frame makes an entry at an index beyond the population.
C24_TrailPerParticle ==
    /\ Len(trailHistory) = Len(snowflakes)
    /\ DOMAIN trailHistory = DOMAIN snowflakes
    /\ \A i \in DOMAIN trailHistory :
          /\ DOMAIN trailHistory[i] = 1..Len(trailHistory[i])
          /\ \A k \in DOMAIN trailHistory[i] : Len(trailHistory[i][k]) = 2

\* C24: with trail recording on and the animation playing, the operator
\* changed numFlakes, and a sub-step of the next frame has recorded a
\* position for every particle of the new population
C24_RecordingAfterResize ==
    /\ AfterSubStep
    /\ frame.cb.showTrail
    /\ lastClick = [op |-> "numFlakes", frames |-> 1]
    /\ Len(snowflakes) # frame.cb.params.numFlakes
    /\ Len(trailHistory) = Len(snowflakes)
    /\ \A i \in DOMAIN trailHistory : trailHistory[i] # <<>>

\* C25: at most one frame callback is pending at any time, and none while a
\* callback runs, after any sequence of Play, Pause, Reset and numFlakes
\* changes interleaved with frames; the pending one is the one
\* animationFrameRef names, so a Play after a Pause starts the only loop.
C25_OnePendingCallback ==
    /\ Cardinality(rafQueue) <= 1
    /\ frame.active => rafQueue = {}
    /\ \A e \in rafQueue : e.id = animationFrameRef

\* C25: Play pressed again after a Pause that followed a frame: one callback
\* is pending
C25_PlayAfterPause ==
    /\ isPlaying
    /\ lastClick = [op |-> "play", frames |-> 0]
    /\ lastUpdated # <<>>
    /\ clicks >= 3
    /\ Cardinality(rafQueue) = 1

====
